---- MODULE Spec2Model ----
(***************************************************************************)
(* Model of the tutorial recommender: the duration parser/formatter of     *)
(* youtube_service.py, the scoring functions and the ranker of             *)
(* recommender.py, and the request handler of main.py.                     *)
(*                                                                         *)
(* Numbers.  Python floats are modelled in fixed point: a component score  *)
(* x in [0,1] is the integer floor(x * Scale); a weight is an integer      *)
(* number of hundredths; a weighted contribution and a total are in units  *)
(* of 1/(Scale*100); a rounded score is in units of 1/10000.               *)
(* Strings that the code parses or renders are sequences of one-character  *)
(* strings.  Python's None is the string "None".                           *)
(***************************************************************************)
EXTENDS Integers, Sequences, FiniteSets, TLC

VARIABLES
    config,       \* the parsed config.yaml (a function from section to keys)
    recommender,  \* main.py global `recommender`: "None" or "constructed"
    now,          \* the wall clock, in half days
    videos,       \* the batch of the last call
    preference,   \* duration_preference of the last call
    top_n,        \* top_n of the last call ("None" when not supplied)
    result,       \* outcome of the last call
    previous,     \* outcome of the call before it on the same arguments
    served,       \* number of /api/search requests handled so far
    response,     \* the response of the last /api/search request
    fn,           \* function under direct test
    args,         \* its arguments
    out,          \* its results
    done          \* whether it has been applied

vars == <<config, recommender, now, videos, preference, top_n, result,
          previous, served, response, fn, args, out, done>>

rankVars == <<videos, preference, top_n, result, previous>>
serverVars == <<served, response>>
pureVars == <<fn, args, out, done>>

-----------------------------------------------------------------------------
(* Bounds of the model *)

MaxBatch == 2
MaxTopN == 2
MaxTicks == 1
MaxLike == 2
MaxSearched == 4
MaxHours == 2
MaxRequests == 2

-----------------------------------------------------------------------------
(* Fixed-point arithmetic *)

Scale == 1000000
Hundred == 100
RoundUnit == (Scale * Hundred) \div 10000

Min(a, b) == IF a <= b THEN a ELSE b
Max(a, b) == IF a >= b THEN a ELSE b

RECURSIVE SeqMax(_)
SeqMax(s) ==
    IF Len(s) = 1 THEN s[1] ELSE Max(s[1], SeqMax(Tail(s)))

\* round(x, 4) on a total in units of 1/(Scale*100): nearest 1/10000, ties to even
Round4(x) ==
    LET q == x \div RoundUnit
        r == x % RoundUnit
    IN  IF 2 * r < RoundUnit THEN q
        ELSE IF 2 * r > RoundUnit THEN q + 1
        ELSE IF q % 2 = 0 THEN q ELSE q + 1

-----------------------------------------------------------------------------
(* Characters and integer <-> text conversions *)

Digits == <<"0", "1", "2", "3", "4", "5", "6", "7", "8", "9">>

IsDigit(c) == \E i \in 1..10 : Digits[i] = c

DigitVal(c) == (CHOOSE i \in 1..10 : Digits[i] = c) - 1

\* value of a non-empty run of digits
RECURSIVE DigitsToInt(_)
DigitsToInt(s) ==
    IF Len(s) = 0 THEN 0
    ELSE 10 * DigitsToInt(SubSeq(s, 1, Len(s) - 1)) + DigitVal(s[Len(s)])

\* f"{n}" for n >= 0
RECURSIVE IntToDigits(_)
IntToDigits(n) ==
    IF n < 10 THEN <<Digits[n + 1]>>
    ELSE Append(IntToDigits(n \div 10), Digits[(n % 10) + 1])

\* f"{n:02d}" for n >= 0
Pad2(n) == IF n < 10 THEN <<"0">> \o IntToDigits(n) ELSE IntToDigits(n)

\* whether int(x) accepts the text x (a non-empty run of digits)
IsNumeric(s) == Len(s) > 0 /\ \A i \in 1..Len(s) : IsDigit(s[i])

-----------------------------------------------------------------------------
(* youtube_service.py: parse_duration / format_duration *)

\* length of the longest run of digits of s starting at position i
RECURSIVE DigitRun(_, _)
DigitRun(s, i) ==
    IF i <= Len(s) /\ IsDigit(s[i]) THEN 1 + DigitRun(s, i + 1) ELSE 0

\* the optional group (?:(\d+)X)? tried at position i
ReGroup(s, i, letter) ==
    LET n == DigitRun(s, i)
    IN  IF n >= 1 /\ i + n <= Len(s) /\ s[i + n] = letter
        THEN [val |-> DigitsToInt(SubSeq(s, i, i + n - 1)), next |-> i + n + 1]
        ELSE [val |-> 0, next |-> i]

parse_duration(duration_str) ==
    IF ~(Len(duration_str) >= 2 /\ duration_str[1] = "P" /\ duration_str[2] = "T")
    THEN 0
    ELSE LET h == ReGroup(duration_str, 3, "H")
             m == ReGroup(duration_str, h.next, "M")
             s == ReGroup(duration_str, m.next, "S")
         IN  h.val * 3600 + m.val * 60 + s.val

\* variant: the seconds field written without padding
format_duration_unpadded(seconds) ==
    LET hours == seconds \div 3600
        minutes == (seconds % 3600) \div 60
        secs == seconds % 60
    IN  IF hours > 0
        THEN IntToDigits(hours) \o <<":">> \o Pad2(minutes) \o <<":">> \o IntToDigits(secs)
        ELSE IntToDigits(minutes) \o <<":">> \o IntToDigits(secs)

format_duration(seconds) ==
    LET hours == seconds \div 3600
        minutes == (seconds % 3600) \div 60
        secs == seconds % 60
    IN  IF hours > 0
        THEN IntToDigits(hours) \o <<":">> \o Pad2(minutes) \o <<":">> \o Pad2(secs)
        ELSE IntToDigits(minutes) \o <<":">> \o Pad2(secs)

-----------------------------------------------------------------------------
(* math.log10 in fixed point: floor-style approximation in units of 1/LogUnit. *)
(* Exact on powers of ten and monotone, as the floating-point function is.     *)

LogBitsCount == 8
LogUnit == 2 ^ LogBitsCount

RECURSIVE IntLog10(_)
IntLog10(n) == IF n < 10 THEN 0 ELSE 1 + IntLog10(n \div 10)

\* binary digits of log10 of the mantissa x/1000 in [1, 10), by repeated squaring
RECURSIVE LogBits(_, _)
LogBits(x, k) ==
    IF k = 0 THEN 0
    ELSE LET sq == (x * x) \div 1000
         IN  IF sq >= 10000
             THEN 2 ^ (k - 1) + LogBits(sq \div 10, k - 1)
             ELSE LogBits(sq, k - 1)

Log10(n) ==
    LET d == IntLog10(n)
    IN  d * LogUnit + LogBits((n * 1000) \div (10 ^ d), LogBitsCount)

-----------------------------------------------------------------------------
(* recommender.py: the five scoring functions *)

\* variant: ranks counted from one
calculate_relevance_score_one_based(search_rank, max_results) ==
    IF search_rank >= max_results THEN 0
    ELSE Scale - (((search_rank + 1) * Scale) \div max_results)

calculate_relevance_score(search_rank, max_results) ==
    IF search_rank >= max_results THEN 0
    ELSE Scale - ((search_rank * Scale) \div max_results)

\* variant: the top band (ratio <= 20) not clamped to 1.0
calculate_like_ratio_score_unclamped(view_count, like_count) ==
    IF like_count = 0 THEN 0
    \* ratio = view_count / like_count; ratio <= b  <=>  view_count <= b * like_count
    ELSE IF view_count <= 50 * like_count
         THEN (8 * Scale) \div 10
              + ((50 * like_count - view_count) * Scale) \div (150 * like_count)
    ELSE IF view_count <= 100 * like_count
         THEN (5 * Scale) \div 10
              + ((100 * like_count - view_count) * Scale) \div (100 * like_count)
    ELSE IF view_count <= 200 * like_count
         THEN (2 * Scale) \div 10
              + ((200 * like_count - view_count) * (Scale \div 500)) \div like_count
    ELSE Max(Scale \div 10,
             (2 * Scale) \div 10
               - ((view_count - 200 * like_count) * (Scale \div 1000)) \div like_count)

calculate_like_ratio_score(view_count, like_count) ==
    IF like_count = 0 THEN 0
    \* ratio = view_count / like_count; ratio <= b  <=>  view_count <= b * like_count
    ELSE IF view_count <= 20 * like_count THEN Scale
    ELSE IF view_count <= 50 * like_count
         THEN (8 * Scale) \div 10
              + ((50 * like_count - view_count) * Scale) \div (150 * like_count)
    ELSE IF view_count <= 100 * like_count
         THEN (5 * Scale) \div 10
              + ((100 * like_count - view_count) * Scale) \div (100 * like_count)
    ELSE IF view_count <= 200 * like_count
         THEN (2 * Scale) \div 10
              + ((200 * like_count - view_count) * (Scale \div 500)) \div like_count
    ELSE Max(Scale \div 10,
             (2 * Scale) \div 10
               - ((view_count - 200 * like_count) * (Scale \div 1000)) \div like_count)

\* variant: always the absolute scale, never the batch maximum
calculate_view_score_absolute(view_count, all_view_counts) ==
    IF view_count <= 0 THEN 0
    ELSE Min(Scale, (Log10(view_count + 1) * Scale) \div (7 * LogUnit))

calculate_view_score(view_count, all_view_counts) ==
    IF view_count <= 0 THEN 0
    ELSE LET log_views == Log10(view_count + 1)
             max_log == IF Len(all_view_counts) > 0
                        THEN Log10(SeqMax(all_view_counts) + 1) ELSE 0
         IN  IF Len(all_view_counts) > 0 /\ max_log > 0
             THEN (log_views * Scale) \div max_log
             ELSE Min(Scale, (log_views * Scale) \div (7 * LogUnit))

\* published_at is [kind, at]: kind "iso" is a parseable timestamp at half-day
\* `at`; kind "text" is a string fromisoformat rejects (ValueError, absorbed);
\* kind "None" is a null, on which .replace raises AttributeError (see below).
HalfDaysPerDay == 2

\* (now - pub_date).days: timedelta.days is the floor
DaysOld(published_at, clock) == (clock - published_at.at) \div HalfDaysPerDay

\* variant: the age as a fraction of days (total_seconds() / 86400), not .days
calculate_recency_score_fractional(published_at, clock) ==
    IF published_at.kind # "iso" THEN (5 * Scale) \div 10
    ELSE LET half_days == clock - published_at.at
         IN  IF half_days <= 2 * 30 THEN Scale
             ELSE IF half_days <= 2 * 90
                  THEN (9 * Scale) \div 10 - ((half_days - 2 * 30) * Scale) \div (2 * 600)
             ELSE IF half_days <= 2 * 365
                  THEN (7 * Scale) \div 10 - ((half_days - 2 * 90) * Scale) \div (2 * 1100)
             ELSE (4 * Scale) \div 10

\* variant: the last band without its floor of 0.1
calculate_recency_score_unfloored(published_at, clock) ==
    IF published_at.kind # "iso" THEN (5 * Scale) \div 10
    ELSE LET days_old == DaysOld(published_at, clock)
         IN  IF days_old <= 30 THEN Scale
             ELSE IF days_old <= 90
                  THEN (9 * Scale) \div 10 - ((days_old - 30) * Scale) \div 600
             ELSE IF days_old <= 365
                  THEN (7 * Scale) \div 10 - ((days_old - 90) * Scale) \div 1100
             ELSE IF days_old <= 730
                  THEN (4 * Scale) \div 10 - ((days_old - 365) * Scale) \div 1825
             ELSE (2 * Scale) \div 10 - ((days_old - 730) * Scale) \div 3650

calculate_recency_score(published_at, clock) ==
    IF published_at.kind # "iso" THEN (5 * Scale) \div 10
    ELSE LET days_old == DaysOld(published_at, clock)
         IN  IF days_old <= 30 THEN Scale
             ELSE IF days_old <= 90
                  THEN (9 * Scale) \div 10 - ((days_old - 30) * Scale) \div 600
             ELSE IF days_old <= 365
                  THEN (7 * Scale) \div 10 - ((days_old - 90) * Scale) \div 1100
             ELSE IF days_old <= 730
                  THEN (4 * Scale) \div 10 - ((days_old - 365) * Scale) \div 1825
             ELSE Max(Scale \div 10,
                      (2 * Scale) \div 10 - ((days_old - 730) * Scale) \div 3650)

\* variant: the scores of the near and the far band of "short" exchanged
calculate_duration_match_score_swapped(duration_seconds, pref, duration_ranges) ==
    IF pref = "None" \/ pref = "any" THEN Scale
    ELSE IF pref = "short"
    THEN LET max_minutes == duration_ranges["short"]["max_minutes"]
         IN  IF duration_seconds <= 60 * max_minutes THEN Scale
             ELSE IF duration_seconds <= 60 * (max_minutes * 2) THEN (2 * Scale) \div 10
             ELSE (5 * Scale) \div 10
    ELSE IF pref = "medium"
    THEN LET min_minutes == duration_ranges["medium"]["min_minutes"]
             max_minutes == duration_ranges["medium"]["max_minutes"]
         IN  IF 60 * min_minutes <= duration_seconds
                /\ duration_seconds <= 60 * max_minutes THEN Scale
             ELSE IF duration_seconds < 60 * min_minutes THEN (7 * Scale) \div 10
             ELSE IF 2 * duration_seconds <= 60 * (max_minutes * 3) THEN (6 * Scale) \div 10
             ELSE (3 * Scale) \div 10
    ELSE IF pref = "long"
    THEN LET min_minutes == duration_ranges["long"]["min_minutes"]
         IN  IF duration_seconds >= 60 * min_minutes THEN Scale
             ELSE IF 2 * duration_seconds >= 60 * min_minutes THEN (6 * Scale) \div 10
             ELSE (3 * Scale) \div 10
    ELSE Scale

\* duration_minutes = duration_seconds / 60 is compared without rounding:
\* seconds/60 <= m  <=>  seconds <= 60*m;  m*1.5 and m*0.5 are doubled out.
calculate_duration_match_score(duration_seconds, pref, duration_ranges) ==
    IF pref = "None" \/ pref = "any" THEN Scale
    ELSE IF pref = "short"
    THEN LET max_minutes == duration_ranges["short"]["max_minutes"]
         IN  IF duration_seconds <= 60 * max_minutes THEN Scale
             ELSE IF duration_seconds <= 60 * (max_minutes * 2) THEN (5 * Scale) \div 10
             ELSE (2 * Scale) \div 10
    ELSE IF pref = "medium"
    THEN LET min_minutes == duration_ranges["medium"]["min_minutes"]
             max_minutes == duration_ranges["medium"]["max_minutes"]
         IN  IF 60 * min_minutes <= duration_seconds
                /\ duration_seconds <= 60 * max_minutes THEN Scale
             ELSE IF duration_seconds < 60 * min_minutes THEN (7 * Scale) \div 10
             ELSE IF 2 * duration_seconds <= 60 * (max_minutes * 3) THEN (6 * Scale) \div 10
             ELSE (3 * Scale) \div 10
    ELSE IF pref = "long"
    THEN LET min_minutes == duration_ranges["long"]["min_minutes"]
         IN  IF duration_seconds >= 60 * min_minutes THEN Scale
             ELSE IF 2 * duration_seconds >= 60 * min_minutes THEN (6 * Scale) \div 10
             ELSE (3 * Scale) \div 10
    ELSE Scale

-----------------------------------------------------------------------------
(* Dictionaries: a dict is a function from its keys; a missing key is a key  *)
(* outside its DOMAIN.                                                       *)

HasKey(d, k) == k \in DOMAIN d
Get(d, k, default) == IF k \in DOMAIN d THEN d[k] ELSE default
Without(d, k) == [x \in (DOMAIN d) \ {k} |-> d[x]]
EmptyDict == [x \in {} |-> 0]

NoneText == <<"None">>     \* a null where the code expects a string
ZeroCount == <<"0">>       \* the default 0 of statistics.get(..., 0)
NoTimestamp == [kind |-> "text", at |-> 0]  \* the default "" of publishedAt
DefaultDuration == <<"P", "T", "0", "S">>

\* exception raised by int(x), or "None"
IntException(x) ==
    IF x = NoneText THEN "TypeError"
    ELSE IF ~IsNumeric(x) THEN "ValueError"
    ELSE "None"

IntOf(x) == DigitsToInt(x)

RECURSIVE FirstException(_)
FirstException(excs) ==
    IF Len(excs) = 0 THEN "None"
    ELSE IF excs[1] # "None" THEN excs[1]
    ELSE FirstException(Tail(excs))

-----------------------------------------------------------------------------
(* recommender.py: calculate_score *)

WeightKeys == <<"relevance_weight", "like_ratio_weight", "view_count_weight",
                "recency_weight", "duration_match_weight">>

\* KeyError of the duration_ranges lookups of calculate_duration_match_score
DurationRangeException(pref, duration_ranges) ==
    LET need == IF pref = "short" THEN {"max_minutes"}
                ELSE IF pref = "medium" THEN {"min_minutes", "max_minutes"}
                ELSE IF pref = "long" THEN {"min_minutes"}
                ELSE {}
    IN  IF need = {} THEN "None"
        ELSE IF ~HasKey(duration_ranges, pref) THEN "KeyError"
        ELSE IF \E k \in need : ~HasKey(duration_ranges[pref], k) THEN "KeyError"
        ELSE "None"

\* first exception calculate_score raises on this record, in statement order
ScoreException(cfg, video, search_rank, max_results, pref) ==
    LET statistics == Get(video, "statistics", EmptyDict)
        content_details == Get(video, "contentDetails", EmptyDict)
        snippet == Get(video, "snippet", EmptyDict)
        published_at == Get(snippet, "publishedAt", NoTimestamp)
    IN  FirstException(<<
            IntException(Get(statistics, "viewCount", ZeroCount)),
            IntException(Get(statistics, "likeCount", ZeroCount)),
            IF Get(content_details, "duration", DefaultDuration) = NoneText
                THEN "TypeError" ELSE "None",
            IF search_rank < max_results /\ max_results = 0
                THEN "ZeroDivisionError" ELSE "None",
            IF published_at.kind = "None" THEN "AttributeError" ELSE "None",
            DurationRangeException(pref, cfg["duration_ranges"]),
            IF \E i \in 1..Len(WeightKeys) : ~HasKey(cfg["scoring"], WeightKeys[i])
                THEN "KeyError" ELSE "None" >>)

\* self.analyzers as __init__ builds it: the comment analyzer when
\* comment_analysis.enabled is true, nothing otherwise
Analyzers(cfg) ==
    IF Get(Get(cfg, "comment_analysis", EmptyDict), "enabled", FALSE)
    THEN <<"comment_analyzer">> ELSE <<>>

\* variant: every analyzer the Recommender holds contributes to the breakdown
\* and to the total
calculate_score_with_analyzers(cfg, video, search_rank, max_results, all_view_counts, pref, clock) ==
    LET statistics == Get(video, "statistics", EmptyDict)
        content_details == Get(video, "contentDetails", EmptyDict)
        snippet == Get(video, "snippet", EmptyDict)
        view_count == IntOf(Get(statistics, "viewCount", ZeroCount))
        like_count == IntOf(Get(statistics, "likeCount", ZeroCount))
        duration_str == Get(content_details, "duration", DefaultDuration)
        published_at == Get(snippet, "publishedAt", NoTimestamp)
        duration_seconds == parse_duration(duration_str)
        relevance == calculate_relevance_score(search_rank, max_results)
        like_ratio == calculate_like_ratio_score(view_count, like_count)
        views == calculate_view_score(view_count, all_view_counts)
        recency == calculate_recency_score(published_at, clock)
        duration_match == calculate_duration_match_score(
                              duration_seconds, pref, cfg["duration_ranges"])
        weights == cfg["scoring"]
        breakdown == [relevance |-> relevance * weights["relevance_weight"],
                      like_ratio |-> like_ratio * weights["like_ratio_weight"],
                      views |-> views * weights["view_count_weight"],
                      recency |-> recency * weights["recency_weight"],
                      duration_match |-> duration_match * weights["duration_match_weight"],
                      comment_quality |-> Len(Analyzers(cfg)) * Scale]
    IN  [total_score |-> breakdown.relevance + breakdown.like_ratio + breakdown.views
                           + breakdown.recency + breakdown.duration_match
                           + breakdown.comment_quality,
         breakdown |-> breakdown,
         raw |-> [relevance |-> relevance, like_ratio |-> like_ratio, views |-> views,
                  recency |-> recency, duration_match |-> duration_match]]

\* the value calculate_score returns when it raises nothing; `raw` keeps the
\* five unweighted component scores (its local variables)
calculate_score(cfg, video, search_rank, max_results, all_view_counts, pref, clock) ==
    LET statistics == Get(video, "statistics", EmptyDict)
        content_details == Get(video, "contentDetails", EmptyDict)
        snippet == Get(video, "snippet", EmptyDict)
        view_count == IntOf(Get(statistics, "viewCount", ZeroCount))
        like_count == IntOf(Get(statistics, "likeCount", ZeroCount))
        duration_str == Get(content_details, "duration", DefaultDuration)
        published_at == Get(snippet, "publishedAt", NoTimestamp)
        duration_seconds == parse_duration(duration_str)
        relevance == calculate_relevance_score(search_rank, max_results)
        like_ratio == calculate_like_ratio_score(view_count, like_count)
        views == calculate_view_score(view_count, all_view_counts)
        recency == calculate_recency_score(published_at, clock)
        duration_match == calculate_duration_match_score(
                              duration_seconds, pref, cfg["duration_ranges"])
        weights == cfg["scoring"]
        breakdown == [relevance |-> relevance * weights["relevance_weight"],
                      like_ratio |-> like_ratio * weights["like_ratio_weight"],
                      views |-> views * weights["view_count_weight"],
                      recency |-> recency * weights["recency_weight"],
                      duration_match |-> duration_match * weights["duration_match_weight"],
                      comment_quality |-> 0]
    IN  [total_score |-> breakdown.relevance + breakdown.like_ratio + breakdown.views
                           + breakdown.recency + breakdown.duration_match,
         breakdown |-> breakdown,
         raw |-> [relevance |-> relevance, like_ratio |-> like_ratio, views |-> views,
                  recency |-> recency, duration_match |-> duration_match]]

-----------------------------------------------------------------------------
(* recommender.py: rank_videos *)

\* list.sort(key=score, reverse=True): stable, so equal scores keep input order.
\* Insert x after every element whose score is >= x.score.
\* variant: an ascending sort reversed afterwards, which reverses ties
RECURSIVE InsertDescUnstable(_, _)
InsertDescUnstable(sorted, x) ==
    IF Len(sorted) = 0 THEN <<x>>
    ELSE IF sorted[1].score > x.score
         THEN <<sorted[1]>> \o InsertDescUnstable(Tail(sorted), x)
         ELSE <<x>> \o sorted

RECURSIVE InsertDesc(_, _)
InsertDesc(sorted, x) ==
    IF Len(sorted) = 0 THEN <<x>>
    ELSE IF sorted[1].score >= x.score
         THEN <<sorted[1]>> \o InsertDesc(Tail(sorted), x)
         ELSE <<x>> \o sorted

RECURSIVE SortDesc(_)
SortDesc(recs) ==
    IF Len(recs) = 0 THEN <<>>
    ELSE InsertDesc(SortDesc(SubSeq(recs, 1, Len(recs) - 1)), recs[Len(recs)])

\* variant: recommendations[:n + 1]
SliceOffByOne(recs, n) == SubSeq(recs, 1, Min(n + 1, Len(recs)))

\* recommendations[:n], Python slice semantics (a negative n counts from the end)
Slice(recs, n) ==
    IF n >= 0 THEN SubSeq(recs, 1, Min(n, Len(recs)))
    ELSE SubSeq(recs, 1, Max(Len(recs) + n, 0))

SentinelRank == 999

\* video.get("search_rank", 999)
SearchRankOf(video) == Get(video, "search_rank", SentinelRank)

ViewCountOf(video) == Get(Get(video, "statistics", EmptyDict), "viewCount", ZeroCount)

\* one VideoRecommendation; `src` is the position of the input record it was
\* built from, `search_rank` the rank it was scored with, `total_score` the
\* unrounded total and `raw` the unweighted component scores (for inspection).
\* title, channel and thumbnail are copied through and are left out.
Recommendation(cfg, batch, i, max_results, all_view_counts, pref, clock) ==
    LET video == batch[i]
        sc == calculate_score(cfg, video, SearchRankOf(video), max_results,
                              all_view_counts, pref, clock)
        snippet == Get(video, "snippet", EmptyDict)
        statistics == Get(video, "statistics", EmptyDict)
        content_details == Get(video, "contentDetails", EmptyDict)
        duration_seconds == parse_duration(Get(content_details, "duration", DefaultDuration))
    IN  [src |-> i,
         search_rank |-> SearchRankOf(video),
         video_id |-> video["id"],
         duration |-> format_duration(duration_seconds),
         duration_seconds |-> duration_seconds,
         view_count |-> IntOf(Get(statistics, "viewCount", ZeroCount)),
         like_count |-> IntOf(Get(statistics, "likeCount", ZeroCount)),
         published_at |-> Get(snippet, "publishedAt", NoTimestamp),
         total_score |-> sc.total_score,
         score |-> Round4(sc.total_score),
         score_breakdown |-> sc.breakdown,
         raw |-> sc.raw]

\* first exception rank_videos raises, in statement order, or "None"
RankException(cfg, batch, pref, tn) ==
    LET filters == cfg["filters"]
        max_results == Get(filters, "default_max_results", 0)
    IN  FirstException(
            << IF tn = <<>> /\ ~HasKey(filters, "final_recommendations")
                   THEN "KeyError" ELSE "None",
               IF ~HasKey(filters, "default_max_results") THEN "KeyError" ELSE "None" >>
            \o [i \in 1..Len(batch) |-> IntException(ViewCountOf(batch[i]))]
            \o [i \in 1..Len(batch) |->
                   FirstException(<<
                       ScoreException(cfg, batch[i], SearchRankOf(batch[i]),
                                      max_results, pref),
                       IF ~HasKey(batch[i], "id") THEN "KeyError" ELSE "None" >>)])

\* tn is <<>> when top_n is not supplied and <<n>> when it is.  The outcome is
\* the returned list `recs` or the exception raised; `scored` keeps the list as
\* built before the sort, `at` the clock of the call and `analyzers` the
\* analyzers the Recommender held (all three for inspection).
rank_videos(cfg, batch, pref, tn, clock) ==
    LET exc == RankException(cfg, batch, pref, tn)
    IN  IF exc # "None"
        THEN [status |-> "raised", exc |-> exc, recs |-> <<>>, scored |-> <<>>,
              at |-> clock, analyzers |-> Analyzers(cfg)]
        ELSE LET n == IF tn = <<>> THEN cfg["filters"]["final_recommendations"] ELSE tn[1]
                 max_results == cfg["filters"]["default_max_results"]
                 all_view_counts == [i \in 1..Len(batch) |-> IntOf(ViewCountOf(batch[i]))]
                 recommendations ==
                     [i \in 1..Len(batch) |->
                         Recommendation(cfg, batch, i, max_results, all_view_counts,
                                        pref, clock)]
             IN  [status |-> "returned", exc |-> "None",
                  recs |-> Slice(SortDesc(recommendations), n),
                  scored |-> recommendations, at |-> clock,
                  analyzers |-> Analyzers(cfg)]

-----------------------------------------------------------------------------
(* Inputs: configurations and raw video records *)

\* weights in hundredths; the values of the documented example configuration
ConfigA ==
    [scoring |-> [relevance_weight |-> 30, like_ratio_weight |-> 25,
                  view_count_weight |-> 20, recency_weight |-> 15,
                  duration_match_weight |-> 10],
     filters |-> [default_max_results |-> 15, final_recommendations |-> 3],
     duration_ranges |-> [short |-> [min_minutes |-> 0, max_minutes |-> 10],
                          medium |-> [min_minutes |-> 10, max_minutes |-> 30],
                          long |-> [min_minutes |-> 30, max_minutes |-> 600]],
     comment_analysis |-> [enabled |-> FALSE]]

ConfigB ==
    [scoring |-> [relevance_weight |-> 10, like_ratio_weight |-> 40,
                  view_count_weight |-> 40, recency_weight |-> 50,
                  duration_match_weight |-> 0],
     filters |-> [default_max_results |-> 2, final_recommendations |-> 1],
     duration_ranges |-> [short |-> [min_minutes |-> 0, max_minutes |-> 4],
                          medium |-> [min_minutes |-> 4, max_minutes |-> 20],
                          long |-> [min_minutes |-> 20, max_minutes |-> 600]],
     comment_analysis |-> [enabled |-> TRUE]]

Configs == {ConfigA, ConfigB}

Iso(at) == [kind |-> "iso", at |-> at]

\* a complete record, 30 days old at time 0 and 31 days old half a day later
VideoA ==
    [id |-> "a",
     snippet |-> [publishedAt |-> Iso(-61)],
     statistics |-> [viewCount |-> <<"1", "0", "0">>, likeCount |-> <<"1", "0">>],
     contentDetails |-> [duration |-> <<"P", "T", "5", "M">>],
     search_rank |-> 0]

\* the same data under another id: ties with VideoA
VideoB == [VideoA EXCEPT !.id = "b"]

\* many views, few likes, long, 200 days old
VideoC ==
    [id |-> "c",
     snippet |-> [publishedAt |-> Iso(-400)],
     statistics |-> [viewCount |-> <<"9", "9", "9", "9">>, likeCount |-> <<"1", "0">>],
     contentDetails |-> [duration |-> <<"P", "T", "1", "H", "5", "M", "9", "S">>],
     search_rank |-> 1]

\* only an id: no snippet (so the publish timestamp is the unparseable ""),
\* no statistics, no contentDetails, no search_rank
VideoD == [id |-> "d"]

\* no id
VideoNoId == Without(VideoA, "id")

\* a non-numeric view count
VideoBadCount ==
    [VideoA EXCEPT !.id = "e", !.statistics.viewCount = <<"n", "/", "a">>]

\* a null publish timestamp
VideoNullDate ==
    [VideoA EXCEPT !.id = "f", !.snippet.publishedAt = [kind |-> "None", at |-> 0]]

Catalog == {VideoA, VideoB, VideoC, VideoD, VideoNoId, VideoBadCount, VideoNullDate}

\* a batch lists no record twice (the details are fetched per distinct video id)
Batches ==
    UNION {{b \in [1..n -> Catalog] : \A i, j \in 1..n : i # j => b[i] # b[j]}
               : n \in 0..MaxBatch}

Preferences == {"any", "short", "medium", "long"}

\* top_n: not supplied, or an integer (negative ones included)
TopNs == {<<>>} \cup {<<n>> : n \in -1..MaxTopN}

NoCall ==
    [status |-> "none", exc |-> "None", recs |-> <<>>, scored |-> <<>>, at |-> 0,
     analyzers |-> <<>>]
NoResponse == [status |-> 0, detail |-> "None", raised_in |-> "None", recommendations |-> <<>>]

-----------------------------------------------------------------------------
(* The ranker as a state machine: a constructed Recommender is called on the  *)
(* same arguments again and again while the wall clock advances.              *)

Init ==
    /\ config \in Configs
    /\ recommender = "constructed"
    /\ now = 0
    /\ videos \in Batches
    /\ preference \in Preferences
    /\ top_n \in TopNs
    /\ result = NoCall
    /\ previous = NoCall
    /\ served = 0
    /\ response = NoResponse
    /\ fn = "none"
    /\ args = <<>>
    /\ out = <<>>
    /\ done = FALSE

\* rec_engine.rank_videos(videos, duration_preference, top_n)
RankVideos ==
    /\ recommender = "constructed"
    /\ previous' = result
    /\ result' = rank_videos(config, videos, preference, top_n, now)
    /\ UNCHANGED <<config, recommender, now, videos, preference, top_n>>
    /\ UNCHANGED <<serverVars, pureVars>>

\* the wall clock read by datetime.now() advances by half a day
Tick ==
    /\ now < MaxTicks
    /\ now' = now + 1
    /\ UNCHANGED <<config, recommender, rankVars, serverVars, pureVars>>

Next == RankVideos \/ Tick

Spec == Init /\ [][Next]_vars

-----------------------------------------------------------------------------
(* Properties of the ranker *)

Called == result.status # "none"
Returned == result.status = "returned"

\* top_n as rank_videos uses it
EffectiveTopN ==
    IF top_n = <<>> THEN config["filters"]["final_recommendations"] ELSE top_n[1]

\* a record of the data model: it has an identifier, its counts are numeric
\* text, its duration and publish timestamp are strings (parseable or not)
WellFormed(video) ==
    /\ HasKey(video, "id")
    /\ IntException(ViewCountOf(video)) = "None"
    /\ IntException(Get(Get(video, "statistics", EmptyDict), "likeCount", ZeroCount)) = "None"
    /\ Get(Get(video, "contentDetails", EmptyDict), "duration", DefaultDuration) # NoneText
    /\ Get(Get(video, "snippet", EmptyDict), "publishedAt", NoTimestamp).kind # "None"

AllWellFormed == \A i \in 1..Len(videos) : WellFormed(videos[i])

\* C1: the returned list is ordered by non-increasing rounded score, and records
\* with equal scores keep the relative order they had in the input batch.
C1_SortedStable ==
    Returned =>
        \A i, j \in 1..Len(result.recs) :
            i < j =>
                /\ result.recs[i].score >= result.recs[j].score
                /\ (result.recs[i].score = result.recs[j].score
                        => result.recs[i].src < result.recs[j].src)

\* C1 witness: a returned list holding a tie between two different videos and a
\* pair the sort exchanged
C1_Witness ==
    /\ Returned
    /\ \E i, j \in 1..Len(result.recs) :
            /\ i < j
            /\ result.recs[i].score = result.recs[j].score
            /\ result.recs[i].video_id # result.recs[j].video_id

\* C2: with top_n >= 0 (the configured final_recommendations when not supplied)
\* a batch of n records yields exactly min(top_n, n) recommendations, each built
\* from a distinct input record; an empty batch yields an empty list, no error.
C2_Count ==
    Called =>
        /\ (AllWellFormed => Returned)
        /\ (videos = <<>> => Returned /\ result.recs = <<>>)
        /\ (Returned /\ EffectiveTopN >= 0 =>
                /\ Len(result.recs) = Min(EffectiveTopN, Len(videos))
                /\ \A i \in 1..Len(result.recs) :
                      /\ result.recs[i].src \in 1..Len(videos)
                      /\ result.recs[i].video_id = videos[result.recs[i].src]["id"]
                /\ \A i, j \in 1..Len(result.recs) :
                      i # j => result.recs[i].src # result.recs[j].src)

\* C2 witness: a call that truncated a longer batch to top_n > 0 records
C2_Witness ==
    /\ Returned
    /\ EffectiveTopN > 0
    /\ Len(videos) > EffectiveTopN
    /\ Len(result.recs) = EffectiveTopN

\* C3 as stated: a second call on the identical batch, preference and
\* configuration returns the identical output, whatever happened in between.
C3_Idempotent ==
    previous.status # "none" =>
        /\ result.status = previous.status
        /\ result.recs = previous.recs

\* every record's age in whole days is the same at the two clock values
SameAges(t1, t2) ==
    \A i \in 1..Len(videos) :
        LET published_at == Get(Get(videos[i], "snippet", EmptyDict), "publishedAt",
                                NoTimestamp)
        IN  published_at.kind = "iso" =>
                (t1 - published_at.at) \div HalfDaysPerDay
                    = (t2 - published_at.at) \div HalfDaysPerDay

\* C3 amended: the two calls return identical output provided no record's age in
\* whole days differs between the two readings of the wall clock.
C3_IdempotentSameAges ==
    (previous.status # "none" /\ SameAges(previous.at, result.at)) =>
        /\ result.status = previous.status
        /\ result.recs = previous.recs

\* C3 witness: two returning calls, the clock advanced between them, ages equal
C3_Witness ==
    /\ previous.status = "returned"
    /\ Returned
    /\ Len(result.recs) > 0
    /\ previous.at < result.at
    /\ SameAges(previous.at, result.at)
    /\ \E i \in 1..Len(result.recs) : result.recs[i].published_at.kind = "iso"

\* C4 as stated: whatever the records lack or carry, the call returns a list.
C4_NeverRaises == Called => Returned

\* C8: in a non-empty batch the record with the maximum view count, when that
\* count is > 0, has an unweighted view score of exactly 1.0, and no record of
\* the batch has a higher one.
C8_MaxViewScore ==
    (Returned /\ Len(videos) > 0) =>
        LET top == SeqMax([i \in 1..Len(videos) |-> result.scored[i].view_count])
        IN  top > 0 =>
              \A i \in 1..Len(videos) :
                  /\ result.scored[i].view_count = top => result.scored[i].raw.views = Scale
                  /\ result.scored[i].raw.views <= Scale

\* C8 witness: a batch with two different positive view counts was scored
C8_Witness ==
    /\ Returned
    /\ \E i, j \in 1..Len(result.scored) :
          /\ result.scored[i].view_count > result.scored[j].view_count
          /\ result.scored[j].view_count > 0
          /\ result.scored[i].raw.views = Scale
          /\ result.scored[j].raw.views > 0
          /\ result.scored[j].raw.views < Scale

-----------------------------------------------------------------------------
(* The ranker under a Recommender that is constructed again from a            *)
(* configuration file differing only in comment_analysis.enabled.             *)

\* filters.default_max_results = 0
ConfigZero == [ConfigA EXCEPT !["filters"]["default_max_results"] = 0]

\* filters.default_max_results above the rank given to a record without one
ConfigWide == [ConfigA EXCEPT !["filters"]["default_max_results"] = 1000]

Configurations == Configs \cup {ConfigZero, ConfigWide}

\* cfg with comment_analysis.enabled set to b
WithAnalysis(cfg, b) == [cfg EXCEPT !["comment_analysis"] = [enabled |-> b]]

InitReconfigure ==
    /\ config \in Configurations
    /\ recommender = "constructed"
    /\ now = 0
    /\ videos \in Batches
    /\ preference \in Preferences
    /\ top_n \in TopNs
    /\ result = NoCall
    /\ previous = NoCall
    /\ served = 0
    /\ response = NoResponse
    /\ fn = "none"
    /\ args = <<>>
    /\ out = <<>>
    /\ done = FALSE

\* Recommender(config_path) on a file whose comment_analysis.enabled is flipped
Reconfigure ==
    /\ config' = WithAnalysis(config, Analyzers(config) = <<>>)
    /\ recommender' = "constructed"
    /\ UNCHANGED <<now, rankVars, serverVars, pureVars>>

NextReconfigure == RankVideos \/ Reconfigure

SpecReconfigure == InitReconfigure /\ [][NextReconfigure]_vars

\* the five weighted contributions of a breakdown, added up
SumOfFive(breakdown) ==
    breakdown.relevance + breakdown.like_ratio + breakdown.views
        + breakdown.recency + breakdown.duration_match

\* C11: the total score of every record is the sum of its five weighted
\* contributions and its comment_quality is 0 whether or not comment analysis
\* is enabled; two ranking calls that differ only in that flag return the same
\* records with the same scores in the same order.
C11_AnalysisNeutral ==
    /\ Returned =>
          \A i \in 1..Len(result.scored) :
             /\ result.scored[i].total_score = SumOfFive(result.scored[i].score_breakdown)
             /\ result.scored[i].score = Round4(SumOfFive(result.scored[i].score_breakdown))
             /\ result.scored[i].score_breakdown.comment_quality = 0
    /\ (Called /\ previous.status # "none" /\ result.analyzers # previous.analyzers) =>
          /\ result.status = previous.status
          /\ result.exc = previous.exc
          /\ result.recs = previous.recs
          /\ result.scored = previous.scored

C11_Witness ==
    /\ Returned
    /\ previous.status = "returned"
    /\ previous.analyzers = <<>>
    /\ result.analyzers # <<>>
    /\ Len(result.recs) >= 2
    /\ result.recs[1].score > result.recs[2].score
    /\ result.recs[2].score > 0

\* C12: in a ranking call, every record whose view count, like count and
\* search rank are non-negative has each of its five unweighted component
\* scores in [0, 1], whatever the configuration (default_max_results = 0
\* included).
C12_ComponentsInUnitInterval ==
    Returned =>
       \A i \in 1..Len(result.scored) :
          LET rec == result.scored[i]
          IN  (rec.view_count >= 0 /\ rec.like_count >= 0 /\ rec.search_rank >= 0) =>
                 /\ rec.raw.relevance \in 0..Scale
                 /\ rec.raw.like_ratio \in 0..Scale
                 /\ rec.raw.views \in 0..Scale
                 /\ rec.raw.recency \in 0..Scale
                 /\ rec.raw.duration_match \in 0..Scale

C12_Witness ==
    /\ Returned
    /\ config["filters"]["default_max_results"] = 0
    /\ \E i \in 1..Len(result.scored) :
          /\ result.scored[i].search_rank = 0
          /\ result.scored[i].raw.relevance = 0
          /\ result.scored[i].raw.like_ratio = Scale
    /\ \E j \in 1..Len(result.scored) :
          /\ result.scored[j].raw.views = Scale
          /\ result.scored[j].raw.recency \in 1..(Scale - 1)

\* C13: a record with no search_rank is scored with the sentinel rank and its
\* relevance contribution to the breakdown is 0, for every value of
\* default_max_results and of relevance_weight.
C13_AbsentRankZeroRelevance ==
    Returned =>
       \A i \in 1..Len(result.scored) :
          ~HasKey(videos[result.scored[i].src], "search_rank") =>
             /\ result.scored[i].search_rank = SentinelRank
             /\ result.scored[i].score_breakdown.relevance = 0

-----------------------------------------------------------------------------
(* The scoring functions and the duration utilities called directly: Init      *)
(* draws a function and its arguments, the action applies the function.        *)

\* view counts at and next to each breakpoint of the view/like ratio
ViewsAround(like_count) ==
    LET unit == Max(like_count, 1)
    IN  {0} \cup {b * unit + e : b \in {20, 50, 100, 200, 300}, e \in {-1, 0, 1}}

\* durations (seconds) at and next to every threshold a configuration defines
DurationsAround(cfg) ==
    LET minutes == UNION {{cfg["duration_ranges"][b]["min_minutes"],
                           cfg["duration_ranges"][b]["max_minutes"]}
                              : b \in {"short", "medium", "long"}}
        thresholds == UNION {{60 * m, 120 * m, 90 * m, 30 * m} : m \in minutes}
    IN  {x \in {t + e : t \in thresholds, e \in {-1, 0, 1}} : x >= 0}

\* a component of a duration token: absent (<<>>) or a number (<<n>>)
Component(values) == {<<>>} \cup {<<v>> : v \in values}

ComponentText(c, letter) ==
    IF c = <<>> THEN <<>> ELSE IntToDigits(c[1]) \o <<letter>>

ComponentValue(c) == IF c = <<>> THEN 0 ELSE c[1]

\* the token PT[nH][nM][nS]
Token(h, m, s) ==
    <<"P", "T">> \o ComponentText(h, "H") \o ComponentText(m, "M")
                 \o ComponentText(s, "S")

RelevanceArgs ==
    {[n |-> n, r1 |-> r1, r2 |-> r2] :
        n \in 1..MaxSearched, r1 \in 0..(MaxSearched + 1), r2 \in 0..(MaxSearched + 1)}

LikeRatioArgs ==
    UNION {{[like_count |-> l, v1 |-> v1, v2 |-> v2] :
                v1 \in ViewsAround(l), v2 \in ViewsAround(l)} : l \in 0..MaxLike}

DurationMatchArgs(cfg) ==
    {[pref |-> p, d1 |-> d1, d2 |-> d2] :
        p \in {"None", "any", "short", "medium", "long", "other"},
        d1 \in DurationsAround(cfg), d2 \in DurationsAround(cfg)}

DurationArgs ==
    {[h |-> h, m |-> m, s |-> s] :
        h \in Component(0..MaxHours \cup {12}),
        m \in Component({0, 5, 59, 60, 90}),
        s \in Component({0, 9, 59, 75})}

\* ages in whole days at and next to every band boundary, just in the future,
\* and far in the last band
AgesAround ==
    {b + e : b \in {0, 30, 90, 365, 730, 1095}, e \in {-1, 0, 1}} \cup {-2, 1500}

\* a timestamp that many days before half-day 0, at midnight or at noon
TimestampsAround == {-(HalfDaysPerDay * d) - h : d \in AgesAround, h \in {0, 1}}

RecencyArgs ==
    {[at1 |-> at1, at2 |-> at2, clock |-> c] :
        at1 \in TimestampsAround, at2 \in TimestampsAround, c \in {0, 1}}

InitPure ==
    /\ recommender = "constructed"
    /\ now = 0
    /\ videos = <<>>
    /\ preference = "any"
    /\ top_n = <<>>
    /\ result = NoCall
    /\ previous = NoCall
    /\ served = 0
    /\ response = NoResponse
    /\ \/ fn = "relevance" /\ config = ConfigA /\ args \in RelevanceArgs
       \/ fn = "like_ratio" /\ config = ConfigA /\ args \in LikeRatioArgs
       \/ fn = "duration_match" /\ config \in Configs
             /\ args \in DurationMatchArgs(config)
       \/ fn = "duration" /\ config = ConfigA /\ args \in DurationArgs
       \/ fn = "recency" /\ config = ConfigA /\ args \in RecencyArgs
    /\ out = <<>>
    /\ done = FALSE

Apply(name, value) ==
    /\ fn = name
    /\ ~done
    /\ out' = value
    /\ done' = TRUE
    /\ UNCHANGED <<config, recommender, now, rankVars, serverVars, fn, args>>

ApplyRelevance ==
    Apply("relevance",
          [s1 |-> calculate_relevance_score(args.r1, args.n),
           s2 |-> calculate_relevance_score(args.r2, args.n),
           first |-> calculate_relevance_score(0, args.n),
           last |-> calculate_relevance_score(args.n, args.n)])

ApplyLikeRatio ==
    Apply("like_ratio",
          [s1 |-> calculate_like_ratio_score(args.v1, args.like_count),
           s2 |-> calculate_like_ratio_score(args.v2, args.like_count)])

ApplyDurationMatch ==
    Apply("duration_match",
          [s1 |-> calculate_duration_match_score(args.d1, args.pref,
                                                 config["duration_ranges"]),
           s2 |-> calculate_duration_match_score(args.d2, args.pref,
                                                 config["duration_ranges"])])

ApplyDuration ==
    LET seconds == parse_duration(Token(args.h, args.m, args.s))
    IN  Apply("duration", [seconds |-> seconds, text |-> format_duration(seconds)])

ApplyRecency ==
    Apply("recency",
          [s1 |-> calculate_recency_score(Iso(args.at1), args.clock),
           s2 |-> calculate_recency_score(Iso(args.at2), args.clock),
           days1 |-> DaysOld(Iso(args.at1), args.clock),
           days2 |-> DaysOld(Iso(args.at2), args.clock)])

NextPure ==
    \/ ApplyRelevance
    \/ ApplyLikeRatio
    \/ ApplyDurationMatch
    \/ ApplyDuration
    \/ ApplyRecency

SpecPure == InitPure /\ [][NextPure]_vars

-----------------------------------------------------------------------------
(* Properties of the functions called directly *)

Applied(name) == fn = name /\ done

\* C6 as stated: for a fixed like count > 0 the like-ratio score never rises
\* when the view/like ratio rises, and it is 0 when the like count is 0.
C6_LikeRatioMonotone ==
    Applied("like_ratio") =>
        /\ (args.like_count = 0 => out.s1 = 0 /\ out.s2 = 0)
        /\ (args.like_count > 0 /\ args.v1 <= args.v2 => out.s1 >= out.s2)

\* C7 as stated: relevance is strictly decreasing in r for 0 <= r < n, with
\* relevance(0, n) = 1 - 1/n and relevance(n, n) = 0.
C7_RelevanceAsStated ==
    Applied("relevance") =>
        /\ (args.r1 < args.r2 /\ args.r2 < args.n => out.s1 > out.s2)
        /\ out.first = Scale - (Scale \div args.n)
        /\ out.last = 0

\* C7 amended: relevance is strictly decreasing in r for 0 <= r < n, with
\* relevance(0, n) = 1 and relevance(n, n) = 0.
C7_Relevance ==
    Applied("relevance") =>
        /\ (args.r1 < args.r2 /\ args.r2 < args.n => out.s1 > out.s2)
        /\ out.first = Scale
        /\ out.last = 0

\* C7 witness: two different ranks below n were scored
C7_Witness ==
    /\ Applied("relevance")
    /\ args.r1 < args.r2
    /\ args.r2 < args.n
    /\ out.s2 > 0

\* the ideal range of a bucket, in seconds
IdealLow(cfg, pref) == 60 * cfg["duration_ranges"][pref]["min_minutes"]
IdealHigh(cfg, pref) == 60 * cfg["duration_ranges"][pref]["max_minutes"]

\* C9: the duration-match score is 1.0 for every duration when the preference
\* is "any" or absent, and for "short", "medium" and "long" it never rises as
\* the duration moves further from the bucket's ideal range, on either side.
C9_DurationMatch ==
    Applied("duration_match") =>
        /\ (args.pref \in {"None", "any"} => out.s1 = Scale /\ out.s2 = Scale)
        /\ (args.pref \in {"short", "medium", "long"} =>
                LET lo == IdealLow(config, args.pref)
                    hi == IdealHigh(config, args.pref)
                IN  /\ (lo <= args.d1 /\ args.d1 <= hi => out.s1 = Scale)
                    /\ (lo <= args.d1 /\ args.d1 <= args.d2 => out.s1 >= out.s2)
                    /\ (args.d2 <= args.d1 /\ args.d1 <= hi => out.s1 >= out.s2))

\* C9 witness: two durations above the medium range, the farther scoring less,
\* or two below the long range, the farther scoring less
C9_Witness ==
    /\ Applied("duration_match")
    /\ \/ /\ args.pref = "medium"
          /\ IdealHigh(config, "medium") < args.d1
          /\ args.d1 < args.d2
          /\ out.s1 > out.s2
       \/ /\ args.pref = "long"
          /\ args.d2 < args.d1
          /\ args.d1 < IdealLow(config, "long")
          /\ out.s1 > out.s2

\* the fields of a rendered duration, split at the colons
RECURSIVE SplitColon(_)
SplitColon(text) ==
    IF \A i \in 1..Len(text) : text[i] # ":" THEN <<text>>
    ELSE LET k == CHOOSE i \in 1..Len(text) :
                      text[i] = ":" /\ \A j \in 1..(i - 1) : text[j] # ":"
         IN  <<SubSeq(text, 1, k - 1)>> \o SplitColon(SubSeq(text, k + 1, Len(text)))

TokenSeconds ==
    3600 * ComponentValue(args.h) + 60 * ComponentValue(args.m) + ComponentValue(args.s)

\* the rendered fields are numbers, name the parsed seconds, and the minutes and
\* seconds fields are below 60
RendersSeconds(fields) ==
    /\ \A i \in 1..Len(fields) : IsNumeric(fields[i])
    /\ DigitsToInt(fields[Len(fields)]) < 60
    /\ DigitsToInt(fields[Len(fields) - 1]) < 60
    /\ out.seconds = (IF Len(fields) = 3 THEN 3600 * DigitsToInt(fields[1]) ELSE 0)
                       + 60 * DigitsToInt(fields[Len(fields) - 1])
                       + DigitsToInt(fields[Len(fields)])

\* C10 as stated: parse_duration returns 3600*H + 60*M + S and format_duration
\* renders it as hours:minutes:seconds when hours > 0 and minutes:seconds
\* otherwise, the minutes and the seconds zero-padded to two digits, the fields
\* summing to the same seconds.
C10_RoundTripAsStated ==
    Applied("duration") =>
        LET fields == SplitColon(out.text)
        IN  /\ out.seconds = TokenSeconds
            /\ Len(fields) = (IF out.seconds >= 3600 THEN 3 ELSE 2)
            /\ RendersSeconds(fields)
            /\ Len(fields[Len(fields)]) = 2
            /\ Len(fields[Len(fields) - 1]) = 2

\* C10 amended: as stated, except that the minutes are zero-padded to two digits
\* only in the hours:minutes:seconds form; in the minutes:seconds form they are
\* written without padding.  The hours are never padded.
C10_RoundTrip ==
    Applied("duration") =>
        LET fields == SplitColon(out.text)
        IN  /\ out.seconds = TokenSeconds
            /\ Len(fields) = (IF out.seconds >= 3600 THEN 3 ELSE 2)
            /\ RendersSeconds(fields)
            /\ Len(fields[Len(fields)]) = 2
            /\ (Len(fields) = 3 => Len(fields[2]) = 2)
            /\ fields[1] = IntToDigits(DigitsToInt(fields[1]))

\* C10 witness: a token with all three components, minutes and seconds above 59,
\* rendered with an hours field
C10_Witness ==
    /\ Applied("duration")
    /\ args.h # <<>> /\ args.m # <<>> /\ args.s # <<>>
    /\ ComponentValue(args.m) > 59
    /\ ComponentValue(args.s) > 59
    /\ Len(SplitColon(out.text)) = 3
    /\ out.seconds > 0

-----------------------------------------------------------------------------
(* main.py: the process and its /api/search handler.  The process starts with *)
(* the global `recommender` unset; the configuration file is read when the    *)
(* first request constructs the Recommender.                                  *)

\* Recommender.__init__: the exception it raises on this configuration, or "None"
InitException(cfg) ==
    FirstException(<<
        IF ~HasKey(cfg, "scoring") THEN "KeyError" ELSE "None",
        IF ~HasKey(cfg, "filters") THEN "KeyError" ELSE "None",
        IF ~HasKey(cfg, "duration_ranges") THEN "KeyError" ELSE "None" >>)

\* every key the scoring and ranking code reads is present
ConfigComplete(cfg) ==
    /\ HasKey(cfg, "scoring") /\ HasKey(cfg, "filters") /\ HasKey(cfg, "duration_ranges")
    /\ \A i \in 1..Len(WeightKeys) : HasKey(cfg["scoring"], WeightKeys[i])
    /\ HasKey(cfg["filters"], "default_max_results")
    /\ HasKey(cfg["filters"], "final_recommendations")
    /\ \A p \in {"short", "medium", "long"} :
          DurationRangeException(p, cfg["duration_ranges"]) = "None"

\* the documented configuration with one key or one section removed
IncompleteConfigs ==
    {Without(ConfigA, k) : k \in {"scoring", "filters", "duration_ranges"}}
    \cup {[ConfigA EXCEPT !.scoring = Without(ConfigA.scoring, WeightKeys[i])]
              : i \in 1..Len(WeightKeys)}
    \cup {[ConfigA EXCEPT !.filters = Without(ConfigA.filters, k)]
              : k \in {"default_max_results", "final_recommendations"}}
    \cup {[ConfigA EXCEPT !.duration_ranges = Without(ConfigA.duration_ranges, "short")]}

ConfigFiles == Configs \cup {Without(ConfigA, "comment_analysis")} \cup IncompleteConfigs

\* what search_and_get_details may deliver
SearchResults == {<<>>, <<VideoA>>, <<VideoC, VideoA>>, <<VideoD>>}

\* the response entry of one recommendation: the breakdown rounded to 4 digits
VideoResponse(rec) ==
    [video_id |-> rec.video_id,
     score |-> rec.score,
     score_breakdown |->
         [relevance |-> Round4(rec.score_breakdown.relevance),
          like_ratio |-> Round4(rec.score_breakdown.like_ratio),
          views |-> Round4(rec.score_breakdown.views),
          recency |-> Round4(rec.score_breakdown.recency),
          duration_match |-> Round4(rec.score_breakdown.duration_match)]]

Failure(where, exc) ==
    [status |-> 500, detail |-> exc, raised_in |-> where, recommendations |-> <<>>]

Success(recs) ==
    [status |-> 200, detail |-> "None", raised_in |-> "None",
     recommendations |-> [i \in 1..Len(recs) |-> VideoResponse(recs[i])]]

InitServer ==
    /\ config \in ConfigFiles
    /\ recommender = "None"
    /\ now = 0
    /\ videos = <<>>
    /\ preference = "any"
    /\ top_n = <<>>
    /\ result = NoCall
    /\ previous = NoCall
    /\ served = 0
    /\ response = NoResponse
    /\ fn = "none"
    /\ args = <<>>
    /\ out = <<>>
    /\ done = FALSE

\* POST /api/search: get_recommender(), search_and_get_details(), rank_videos()
SearchVideos(found, pref) ==
    /\ served < MaxRequests
    /\ served' = served + 1
    /\ LET init_exc == IF recommender = "None" THEN InitException(config) ELSE "None"
       IN  IF init_exc # "None"
           THEN \* raised by get_recommender, before the handler's try block
                /\ response' = Failure("get_recommender", init_exc)
                /\ UNCHANGED <<recommender, rankVars>>
           ELSE /\ recommender' = "constructed"
                /\ IF ~HasKey(config["filters"], "default_max_results")
                   THEN /\ response' = Failure("search_videos", "KeyError")
                        /\ UNCHANGED rankVars
                   ELSE IF found = <<>>
                   THEN /\ response' = Success(<<>>)
                        /\ UNCHANGED rankVars
                   ELSE LET ranked == rank_videos(config, found, pref, <<>>, now)
                        IN  /\ videos' = found
                            /\ preference' = pref
                            /\ top_n' = <<>>
                            /\ previous' = result
                            /\ result' = ranked
                            /\ response' = IF ranked.status = "raised"
                                           THEN Failure("rank_videos", ranked.exc)
                                           ELSE Success(ranked.recs)
    /\ UNCHANGED <<config, now, pureVars>>

NextServer ==
    \E found \in SearchResults, pref \in Preferences : SearchVideos(found, pref)

SpecServer == InitServer /\ [][NextServer]_vars

\* C5 as stated: a configuration lacking a required key is detected when the
\* process starts, before any search request is handled, and never shows up
\* first inside a ranking call.
C5_ConfigErrorAtStart ==
    ~ConfigComplete(config) =>
        /\ served = 0
        /\ response.raised_in # "rank_videos"

-----------------------------------------------------------------------------
(* The recency score called directly *)

\* C14: for parseable timestamps the recency score never rises when the age in
\* whole days rises (band boundaries at 30, 90, 365 and 730 days included), is
\* 1.0 for every age of at most 30 days (timestamps in the future included),
\* and is never below 0.1.
C14_RecencyMonotone ==
    Applied("recency") =>
       /\ out.days1 <= out.days2 => out.s1 >= out.s2
       /\ out.days1 <= 30 => out.s1 = Scale
       /\ out.s1 >= Scale \div 10
       /\ out.s1 <= Scale

C14_Witness ==
    /\ Applied("recency")
    /\ out.days1 < 0
    /\ out.s1 = Scale
    /\ out.days2 > 1095
    /\ out.s2 = Scale \div 10

====
